---- MODULE Spec2Model ----
(***************************************************************************)
(* A model of the nanLanguage interpreter (src/nanLanguage.cpp): the       *)
(* recursive-descent expression parser (ExprParser), the statement         *)
(* executor (Interpreter::execute and Interpreter::runLine), the block     *)
(* capture (readBlock) and the variable store.                             *)
(*                                                                         *)
(* Text is modelled at character level: a line is a TLA+ string and the    *)
(* parser walks it with a 0-based position exactly as the code does.  A    *)
(* script is the sequence of lines std::getline yields from the script     *)
(* text.  A double is modelled as an exact rational <<n, d>> (d > 0,       *)
(* lowest terms); d = 0 encodes the non-finite doubles: <<1,0>> is +inf,   *)
(* <<-1,0>> is -inf and <<0,0>> is NaN.  The sign of zero and the rounding *)
(* of binary floating point are not represented.                           *)
(***************************************************************************)
EXTENDS Integers, Sequences, FiniteSets, TLC

(***************************************************************************)
(* Bounds of the model.                                                    *)
(***************************************************************************)
MaxLines == 3
MaxLit == 2

(***************************************************************************)
(* Characters (<cctype> in the "C" locale).                                *)
(***************************************************************************)
Digits == <<"0", "1", "2", "3", "4", "5", "6", "7", "8", "9">>

isspace(c) == c \in {" ", "\t", "\n", "\r", "\f"}

isdigit(c) == c \in {"0", "1", "2", "3", "4", "5", "6", "7", "8", "9"}

isalpha(c) ==
    c \in {"a", "b", "c", "d", "e", "f", "g", "h", "i", "j", "k", "l", "m",
           "n", "o", "p", "q", "r", "s", "t", "u", "v", "w", "x", "y", "z",
           "A", "B", "C", "D", "E", "F", "G", "H", "I", "J", "K", "L", "M",
           "N", "O", "P", "Q", "R", "S", "T", "U", "V", "W", "X", "Y", "Z"}

isalnum(c) == isalpha(c) \/ isdigit(c)

\* s[pos] for a 0-based pos; "" past the end (the code guards with pos < s.size()).
CharAt(s, pos) == IF pos >= 0 /\ pos < Len(s) THEN SubSeq(s, pos + 1, pos + 1) ELSE ""

\* s.substr(pos)
substr(s, pos) == SubSeq(s, pos + 1, Len(s))

\* s.substr(pos, n)
substrN(s, pos, n) == SubSeq(s, pos + 1, IF pos + n > Len(s) THEN Len(s) ELSE pos + n)

DigitVal(c) == CHOOSE k \in 0..9 : Digits[k + 1] = c

(***************************************************************************)
(* Trimming.                                                               *)
(***************************************************************************)
RECURSIVE SkipSpaces(_, _)
\* the index reached by `while (i < s.size() && isspace(s[i])) i++`
SkipSpaces(s, i) ==
    IF i < Len(s) /\ isspace(CharAt(s, i)) THEN SkipSpaces(s, i + 1) ELSE i

RECURSIVE SkipSpacesBack(_, _)
\* the index reached by `while (i > 0 && isspace(s[i - 1])) i--`
SkipSpacesBack(s, i) ==
    IF i > 0 /\ isspace(CharAt(s, i - 1)) THEN SkipSpacesBack(s, i - 1) ELSE i

ltrim(s) == substr(s, SkipSpaces(s, 0))

rtrim(s) == IF s = "" THEN s ELSE substrN(s, 0, SkipSpacesBack(s, Len(s)))

trim(s) == rtrim(ltrim(s))

(***************************************************************************)
(* Doubles as exact rationals.                                             *)
(***************************************************************************)
Abs(n) == IF n < 0 THEN -n ELSE n

Sign(n) == IF n < 0 THEN -1 ELSE IF n > 0 THEN 1 ELSE 0

RECURSIVE GCD(_, _)
GCD(a, b) == IF b = 0 THEN a ELSE GCD(b, a % b)

\* the double n/d: lowest terms, positive denominator; d = 0 gives +-inf or NaN
Rat(n, d) ==
    IF d = 0 THEN <<Sign(n), 0>>
    ELSE LET g == GCD(Abs(n), Abs(d))
         IN  <<(Sign(d) * n) \div g, Abs(d) \div g>>

Num(n) == <<n, 1>>

NaN == <<0, 0>>

IsNaN(a) == a = NaN

IsFinite(a) == a[2] # 0

Neg(a) == <<-a[1], a[2]>>

DAdd(a, b) ==
    IF IsNaN(a) \/ IsNaN(b) THEN NaN
    ELSE IF ~IsFinite(a) /\ ~IsFinite(b) THEN (IF a = b THEN a ELSE NaN)
    ELSE IF ~IsFinite(a) THEN a
    ELSE IF ~IsFinite(b) THEN b
    ELSE Rat(a[1] * b[2] + b[1] * a[2], a[2] * b[2])

DSub(a, b) == DAdd(a, Neg(b))

DMul(a, b) == Rat(a[1] * b[1], a[2] * b[2])

DDiv(a, b) ==
    IF b[1] < 0 THEN Rat(-(a[1] * b[2]), a[2] * (-b[1]))
    ELSE Rat(a[1] * b[2], a[2] * b[1])

\* v < r on doubles (false when either is NaN)
DLess(a, b) ==
    /\ ~IsNaN(a)
    /\ ~IsNaN(b)
    /\ IF ~IsFinite(a) /\ ~IsFinite(b) THEN a[1] < b[1]
       ELSE IF ~IsFinite(a) THEN a[1] < 0
       ELSE IF ~IsFinite(b) THEN b[1] > 0
       ELSE a[1] * b[2] < b[1] * a[2]

\* v == r on doubles (NaN equals nothing)
DEq(a, b) == ~IsNaN(a) /\ ~IsNaN(b) /\ a = b

DLeq(a, b) == DLess(a, b) \/ DEq(a, b)

\* std::floor of a finite double, as an integer
FloorInt(a) == a[1] \div a[2]

\* truncation toward zero of a finite double, as an integer
TruncInt(a) == IF a[1] < 0 THEN -((-a[1]) \div a[2]) ELSE a[1] \div a[2]

\* std::round of a finite double (halves away from zero), as an integer
RoundInt(a) ==
    IF a[1] < 0 THEN -((2 * (-a[1]) + a[2]) \div (2 * a[2]))
    ELSE (2 * a[1] + a[2]) \div (2 * a[2])

\* std::fmod: the remainder has the sign of the dividend
DFmod(a, b) ==
    IF IsNaN(a) \/ IsNaN(b) \/ ~IsFinite(a) \/ b = Num(0) THEN NaN
    ELSE IF ~IsFinite(b) THEN a
    ELSE DSub(a, DMul(b, Num(TruncInt(DDiv(a, b)))))

RECURSIVE Pow10(_)
Pow10(k) == IF k = 0 THEN 1 ELSE 10 * Pow10(k - 1)

(***************************************************************************)
(* ExprParser: recursive descent over the text P.s, reading the variable   *)
(* store P.vars.  Every rule takes the position it starts at and returns   *)
(* [pos, v, err]: the position reached, the value, and the text of the     *)
(* exception thrown ("" when none).  A thrown exception propagates through *)
(* every enclosing rule unchanged.                                         *)
(***************************************************************************)
Parser(input, vars, prefix) == [s |-> input, vars |-> vars, prefix |-> prefix]

Ok(pos, v) == [pos |-> pos, v |-> v, err |-> ""]

Failed(r) == r.err # ""

skipWs(P, pos) == SkipSpaces(P.s, pos)

fail(P, pos, msg) ==
    [pos |-> pos, v |-> NaN,
     err |-> P.prefix \o msg \o " near: '" \o substr(P.s, pos) \o "'"]

truthy(v) == IF DEq(v, Num(0)) THEN Num(0) ELSE Num(1)

Bool(b) == IF b THEN Num(1) ELSE Num(0)

RECURSIVE IdentEnd(_, _)
\* the position after the identifier characters starting at pos
IdentEnd(s, pos) ==
    IF pos < Len(s) /\ (isalnum(CharAt(s, pos)) \/ CharAt(s, pos) = "_")
    THEN IdentEnd(s, pos + 1)
    ELSE pos

\* [id, pos]: the identifier at pos ("" when none starts there)
parseIdentifier(P, pos) ==
    LET p0 == skipWs(P, pos)
        c == CharAt(P.s, p0)
    IN  IF ~(isalpha(c) \/ c = "_") THEN [id |-> "", pos |-> p0]
        ELSE LET e == IdentEnd(P.s, p0 + 1)
             IN  [id |-> substrN(P.s, p0, e - p0), pos |-> e]

RECURSIVE DigitsEnd(_, _)
\* the position after the run of digits starting at pos
DigitsEnd(s, pos) ==
    IF pos < Len(s) /\ isdigit(CharAt(s, pos)) THEN DigitsEnd(s, pos + 1) ELSE pos

RECURSIVE DigitsValue(_, _, _)
\* the decimal value of the digits s[from .. to-1] (0 for an empty run)
DigitsValue(s, from, to) ==
    IF to <= from THEN 0
    ELSE 10 * DigitsValue(s, from, to - 1) + DigitVal(CharAt(s, to - 1))

\* where the digits of an exponent start, given its marker at e: a sign may
\* come first
ExponentStart(s, e) == IF CharAt(s, e + 1) \in {"+", "-"} THEN e + 2 ELSE e + 1

\* where the digits of the exponent marked at e end
ExponentEnd(s, e) == DigitsEnd(s, ExponentStart(s, e))

\* mant scaled by ten to the exponent ex, whose sign character is sgn
stodScaled(mant, sgn, ex) ==
    [ok |-> TRUE,
     v |-> IF sgn = "-" THEN DDiv(mant, Num(Pow10(ex))) ELSE DMul(mant, Num(Pow10(ex)))]

\* the exponent of a literal whose mantissa mant ends at f1; an exponent
\* marker without digits is not part of the literal
stodExponent(t, mant, f1) ==
    stodScaled(mant, CharAt(t, f1 + 1),
               IF CharAt(t, f1) \in {"e", "E"} /\ ExponentEnd(t, f1) > ExponentStart(t, f1)
               THEN DigitsValue(t, ExponentStart(t, f1), ExponentEnd(t, f1)) ELSE 0)

\* the mantissa: integer digits t[0 .. i1), fraction digits t[f0 .. f1)
stodMantissa(t, i1, f0, f1) ==
    IF i1 = 0 /\ f1 = f0 THEN [ok |-> FALSE, v |-> NaN]
    ELSE stodExponent(t,
                      Rat(DigitsValue(t, 0, i1) * Pow10(f1 - f0) + DigitsValue(t, f0, f1),
                          Pow10(f1 - f0)),
                      f1)

\* the fraction after the integer digits t[0 .. i1)
stodFraction(t, i1) ==
    stodMantissa(t, i1,
                 IF CharAt(t, i1) = "." THEN i1 + 1 ELSE i1,
                 IF CharAt(t, i1) = "." THEN DigitsEnd(t, i1 + 1) ELSE i1)

\* std::stod: the longest prefix of t that is a decimal floating literal;
\* [ok, v]; ok is FALSE when std::invalid_argument is thrown
stod(t) == stodFraction(t, DigitsEnd(t, 0))

\* the text s[start .. end) converted by std::stod
numberValue(end, d) ==
    IF ~d.ok THEN [pos |-> end, v |-> NaN, err |-> "stod"] ELSE Ok(end, d.v)

\* the end of parseNumber, with pos = end
numberEnd(P, start, end, sawDigit) ==
    IF start = end \/ ~sawDigit THEN fail(P, end, "Expected number")
    ELSE numberValue(end, stod(substrN(P.s, start, end - start)))

\* the exponent at p3: without exponent digits pos rolls back to the marker
numberExponent(P, start, p3, sawDigit) ==
    numberEnd(P, start,
              IF CharAt(P.s, p3) \in {"e", "E"}
                 /\ ExponentEnd(P.s, p3) > ExponentStart(P.s, p3)
              THEN ExponentEnd(P.s, p3) ELSE p3,
              sawDigit)

\* the fraction at p2, after the digits s[p1 .. p2)
numberFraction(P, start, p1, p2) ==
    numberExponent(P, start,
                   IF CharAt(P.s, p2) = "." THEN DigitsEnd(P.s, p2 + 1) ELSE p2,
                   p2 > p1 \/ (CharAt(P.s, p2) = "." /\ DigitsEnd(P.s, p2 + 1) > p2 + 1))

\* the leading digits, from p1
numberDigits(P, start, p1) == numberFraction(P, start, p1, DigitsEnd(P.s, p1))

\* parseNumber after skipWs, with pos = start
numberFrom(P, start) ==
    IF CharAt(P.s, start) = "." \/ isdigit(CharAt(P.s, start))
    THEN numberDigits(P, start, IF CharAt(P.s, start) = "." THEN start + 1 ELSE start)
    ELSE fail(P, start, "Expected number")

parseNumber(P, pos) == numberFrom(P, skipWs(P, pos))

OneArgFunctions == {"sqrt", "sin", "cos", "tan", "abs", "log", "exp", "floor", "ceil"}

TwoArgFunctions == {"pow", "min", "max"}

\* The value of a built-in.  abs, floor, ceil, min and max are exact on
\* rationals; the transcendental ones (sqrt, sin, cos, tan, log, exp, pow)
\* have no rational model: only their arity check is modelled and no input
\* of this development calls them with the right arity.
FunctionValue(name, args) ==
    LET a == args[1]
    IN  CASE name = "abs" -> <<Abs(a[1]), a[2]>>
          [] name = "floor" -> IF IsFinite(a) THEN Num(FloorInt(a)) ELSE a
          [] name = "ceil" -> IF IsFinite(a) THEN Num(-FloorInt(Neg(a))) ELSE a
          [] name = "min" -> IF IsNaN(a) THEN args[2]
                             ELSE IF IsNaN(args[2]) \/ DLess(a, args[2]) THEN a
                             ELSE args[2]
          [] name = "max" -> IF IsNaN(a) THEN args[2]
                             ELSE IF IsNaN(args[2]) \/ DLess(args[2], a) THEN a
                             ELSE args[2]
          [] OTHER -> NaN

callFunction(P, pos, name, args) ==
    IF name \in OneArgFunctions
    THEN IF Len(args) # 1 THEN fail(P, pos, name \o "() expects 1 arg")
         ELSE Ok(pos, FunctionValue(name, args))
    ELSE IF name \in TwoArgFunctions
    THEN IF Len(args) # 2 THEN fail(P, pos, name \o "() expects 2 args")
         ELSE Ok(pos, FunctionValue(name, args))
    ELSE fail(P, pos, "Unknown function: " \o name)

\* the value of  a op b  for a binary operator of the grammar
BinaryValue(op, a, b) ==
    CASE op = "*" -> DMul(a, b)
      [] op = "/" -> DDiv(a, b)
      [] op = "%" -> DFmod(a, b)
      [] op = "+" -> DAdd(a, b)
      [] op = "-" -> DSub(a, b)
      [] op = ">=" -> Bool(DLeq(b, a))
      [] op = "<=" -> Bool(DLeq(a, b))
      [] op = ">" -> Bool(DLess(b, a))
      [] op = "<" -> Bool(DLess(a, b))
      [] op = "==" -> Bool(DEq(a, b))
      [] op = "!=" -> Bool(~DEq(a, b))
      [] op = "&&" -> Bool(truthy(a) = Num(1) /\ truthy(b) = Num(1))
      [] op = "||" -> Bool(truthy(a) = Num(1) \/ truthy(b) = Num(1))

\* `v = v op rhs` inside the loop of a rule: st holds v, r is the parse of rhs
Combined(op, st, r) ==
    IF Failed(r) THEN r ELSE Ok(r.pos, BinaryValue(op, st.v, r.v))

\* the result r with its value replaced by f applied to it
Negated(r) == IF Failed(r) THEN r ELSE Ok(r.pos, Neg(r.v))

Inverted(r) ==
    IF Failed(r) THEN r ELSE Ok(r.pos, IF truthy(r.v) = Num(1) THEN Num(0) ELSE Num(1))

\* the rules of the grammar call one another in a cycle
RECURSIVE expr(_, _)
RECURSIVE logical_or(_, _)
RECURSIVE logical_and(_, _)
RECURSIVE equality(_, _)
RECURSIVE comparison(_, _)
RECURSIVE term(_, _)
RECURSIVE factor(_, _)
RECURSIVE unary(_, _)
RECURSIVE primary(_, _)
RECURSIVE identifier(_, _)
RECURSIVE closeParen(_, _)
RECURSIVE callArgs(_, _, _, _)
RECURSIVE callArgsNext(_, _, _, _)

\* after an argument a of a function call: ")" ends the call, "," continues it
callArgsNext(P, name, args, a) ==
    LET p1 == skipWs(P, a.pos)
    IN  IF Failed(a) THEN a
        ELSE IF CharAt(P.s, p1) = ")" THEN callFunction(P, p1 + 1, name, Append(args, a.v))
        ELSE IF CharAt(P.s, p1) = "," THEN callArgs(P, p1 + 1, name, Append(args, a.v))
        ELSE fail(P, p1, "Expected ',' or ')'")

\* the `while (true)` of a function call: args collected so far, next expr at pos
callArgs(P, pos, name, args) == callArgsNext(P, name, args, expr(P, pos))

\* after the expr r of a parenthesised primary: the ")" it needs
closeParen(P, r) ==
    LET p1 == skipWs(P, r.pos)
    IN  IF Failed(r) THEN r
        ELSE IF CharAt(P.s, p1) = ")" THEN Ok(p1 + 1, r.v)
        ELSE fail(P, p1, "Expected ')'")

\* an identifier: a function call when "(" follows, else a variable
identifier(P, idp) ==
    LET p1 == skipWs(P, idp.pos)
        p2 == skipWs(P, p1 + 1)
    IN  IF CharAt(P.s, p1) = "("
        THEN IF CharAt(P.s, p2) = ")" THEN callFunction(P, p2 + 1, idp.id, <<>>)
             ELSE callArgs(P, p2, idp.id, <<>>)
        ELSE IF idp.id \in DOMAIN P.vars THEN Ok(p1, P.vars[idp.id])
        ELSE fail(P, p1, "Unknown variable: " \o idp.id)

primary(P, pos) ==
    LET p0 == skipWs(P, pos)
        c == CharAt(P.s, p0)
    IN  IF c = "(" THEN closeParen(P, expr(P, p0 + 1))
        ELSE IF isalpha(c) \/ c = "_" THEN identifier(P, parseIdentifier(P, p0))
        ELSE IF isdigit(c) \/ c = "." THEN parseNumber(P, p0)
        ELSE fail(P, p0, "Expected primary expression")

unary(P, pos) ==
    LET p0 == skipWs(P, pos)
        c == CharAt(P.s, p0)
    IN  IF c = "+" THEN unary(P, p0 + 1)
        ELSE IF c = "-" THEN Negated(unary(P, p0 + 1))
        ELSE IF c = "!" THEN Inverted(unary(P, p0 + 1))
        ELSE primary(P, p0)

RECURSIVE factorLoop(_, _)
\* the `while (true)` of factor: st is the parse so far
factorLoop(P, st) ==
    LET p0 == skipWs(P, st.pos)
        c == CharAt(P.s, p0)
    IN  IF Failed(st) THEN st
        ELSE IF c \in {"*", "/", "%"}
        THEN factorLoop(P, Combined(c, st, unary(P, p0 + 1)))
        ELSE Ok(p0, st.v)

factor(P, pos) == factorLoop(P, unary(P, pos))

\* termLoop with the right operand parsed as a whole term: + and - would
\* associate to the right
termLoopRightAssoc(P, st) ==
    LET p0 == skipWs(P, st.pos)
        c == CharAt(P.s, p0)
    IN  IF Failed(st) THEN st
        ELSE IF c \in {"+", "-"}
        THEN Combined(c, st, term(P, p0 + 1))
        ELSE Ok(p0, st.v)

RECURSIVE termLoop(_, _)
\* the `while (true)` of term
termLoop(P, st) ==
    LET p0 == skipWs(P, st.pos)
        c == CharAt(P.s, p0)
    IN  IF Failed(st) THEN st
        ELSE IF c \in {"+", "-"}
        THEN termLoop(P, Combined(c, st, factor(P, p0 + 1)))
        ELSE Ok(p0, st.v)

term(P, pos) == termLoop(P, factor(P, pos))

RECURSIVE comparisonLoop(_, _)
\* the `while (true)` of comparison: ">=" and "<=" are tried before ">" and "<"
comparisonLoop(P, st) ==
    LET p0 == skipWs(P, st.pos)
        two == substrN(P.s, p0, 2)
        op == IF two \in {">=", "<="} THEN two ELSE CharAt(P.s, p0)
    IN  IF Failed(st) THEN st
        ELSE IF op \in {">=", "<=", ">", "<"}
        THEN comparisonLoop(P, Combined(op, st, term(P, p0 + Len(op))))
        ELSE Ok(p0, st.v)

comparison(P, pos) == comparisonLoop(P, term(P, pos))

RECURSIVE equalityLoop(_, _)
\* the `while (true)` of equality
equalityLoop(P, st) ==
    LET p0 == skipWs(P, st.pos)
        op == substrN(P.s, p0, 2)
    IN  IF Failed(st) THEN st
        ELSE IF op \in {"==", "!="}
        THEN equalityLoop(P, Combined(op, st, comparison(P, p0 + 2)))
        ELSE Ok(p0, st.v)

equality(P, pos) == equalityLoop(P, comparison(P, pos))

RECURSIVE logical_andLoop(_, _)
\* the `while (true)` of logical_and
logical_andLoop(P, st) ==
    LET p0 == skipWs(P, st.pos)
    IN  IF Failed(st) THEN st
        ELSE IF substrN(P.s, p0, 2) = "&&"
        THEN logical_andLoop(P, Combined("&&", st, equality(P, p0 + 2)))
        ELSE Ok(p0, st.v)

logical_and(P, pos) == logical_andLoop(P, equality(P, pos))

RECURSIVE logical_orLoop(_, _)
\* the `while (true)` of logical_or
logical_orLoop(P, st) ==
    LET p0 == skipWs(P, st.pos)
    IN  IF Failed(st) THEN st
        ELSE IF substrN(P.s, p0, 2) = "||"
        THEN logical_orLoop(P, Combined("||", st, logical_and(P, p0 + 2)))
        ELSE Ok(p0, st.v)

logical_or(P, pos) == logical_orLoop(P, logical_and(P, pos))

expr(P, pos) == logical_or(P, pos)

\* after the expr r of eval: nothing but white space may follow
endOfInput(P, r) ==
    LET p == skipWs(P, r.pos)
    IN  IF Failed(r) THEN r
        ELSE IF p # Len(P.s) THEN fail(P, p, "Unexpected trailing characters")
        ELSE Ok(p, r.v)

\* ExprParser::eval
eval(P) == endOfInput(P, expr(P, 0))

\* Interpreter::evalExpr against the store vars
evalExpr(text, vars, errPrefix) == eval(Parser(text, vars, errPrefix))

(***************************************************************************)
(* printNumberNicely: the text std::cout receives for a double.            *)
(***************************************************************************)
\* 1 / 1e-9, the tolerance of printNumberNicely
ToleranceInv == 1000000000

\* std::setprecision(12)
Precision == 12

RECURSIVE NatToString(_)
NatToString(n) ==
    IF n < 10 THEN Digits[n + 1] ELSE NatToString(n \div 10) \o Digits[(n % 10) + 1]

\* operator<< of a long long
IntToString(n) == IF n < 0 THEN "-" \o NatToString(-n) ELSE NatToString(n)

\* std::fabs(v - std::round(v)) < 1e-9 for a finite v
NearInteger(v) ==
    LET k == Abs(v[1] - RoundInt(v) * v[2])
    IN  k = 0 \/ (k <= 2 /\ k * ToleranceInv < v[2])

RECURSIVE DecExponent(_, _)
\* the decimal exponent X of a positive rational m: 10^X <= m < 10^(X+1)
DecExponent(m, x) ==
    IF DLess(m, Num(1)) THEN DecExponent(DMul(m, Num(10)), x - 1)
    ELSE IF ~DLess(m, Num(10)) THEN DecExponent(DDiv(m, Num(10)), x + 1)
    ELSE x

RECURSIVE DecDigits(_, _)
\* the first k decimal digits of a rational q in [0, 10)
DecDigits(q, k) ==
    IF k = 0 THEN <<>>
    ELSE <<FloorInt(q)>> \o DecDigits(DMul(DSub(q, Num(FloorInt(q))), Num(10)), k - 1)

RECURSIVE IncDigits(_)
\* add one unit in the last place; the result is one digit longer on overflow
IncDigits(ds) ==
    IF ds = <<>> THEN <<1>>
    ELSE IF ds[Len(ds)] < 9 THEN [ds EXCEPT ![Len(ds)] = @ + 1]
    ELSE IncDigits(SubSeq(ds, 1, Len(ds) - 1)) \o <<0>>

RECURSIVE StripZeros(_)
StripZeros(ds) ==
    IF Len(ds) > 1 /\ ds[Len(ds)] = 0 THEN StripZeros(SubSeq(ds, 1, Len(ds) - 1)) ELSE ds

RECURSIVE DigitsText(_)
DigitsText(ds) == IF ds = <<>> THEN "" ELSE Digits[Head(ds) + 1] \o DigitsText(Tail(ds))

RECURSIVE Zeros(_)
Zeros(k) == IF k <= 0 THEN "" ELSE "0" \o Zeros(k - 1)

\* operator<< of a finite non-zero double under setprecision(12): the %g
\* conversion (Precision significant digits, trailing zeros removed,
\* scientific notation when the exponent is below -4 or at least Precision)
GeneralFormat(v) ==
    LET m == <<Abs(v[1]), v[2]>>
        x0 == DecExponent(m, 0)
        q == IF x0 >= 0 THEN DDiv(m, Num(Pow10(x0))) ELSE DMul(m, Num(Pow10(-x0)))
        raw == DecDigits(q, Precision + 1)
        kept == SubSeq(raw, 1, Precision)
        rounded == IF raw[Precision + 1] >= 5 THEN IncDigits(kept) ELSE kept
        carry == Len(rounded) > Precision
        x == IF carry THEN x0 + 1 ELSE x0
        ds == StripZeros(SubSeq(rounded, 1, Precision))
        sgn == IF v[1] < 0 THEN "-" ELSE ""
        frac(from) == IF Len(ds) >= from THEN "." \o DigitsText(SubSeq(ds, from, Len(ds)))
                      ELSE ""
    IN  IF x < -4 \/ x >= Precision
        THEN sgn \o Digits[ds[1] + 1] \o frac(2) \o "e" \o (IF x < 0 THEN "-" ELSE "+")
             \o (IF Abs(x) < 10 THEN "0" ELSE "") \o NatToString(Abs(x))
        ELSE IF x < 0
        THEN sgn \o "0." \o Zeros(-x - 1) \o DigitsText(ds)
        ELSE IF Len(ds) <= x + 1
        THEN sgn \o DigitsText(ds) \o Zeros(x + 1 - Len(ds))
        ELSE sgn \o DigitsText(SubSeq(ds, 1, x + 1)) \o frac(x + 2)

\* The set of texts printNumberNicely can write for v: one text, except for
\* NaN, whose sign (not represented here) decides between "nan" and "-nan".
printNumberNicely(v) ==
    IF IsNaN(v) THEN {"nan", "-nan"}
    ELSE IF ~IsFinite(v) THEN {IF v[1] > 0 THEN "inf" ELSE "-inf"}
    ELSE IF NearInteger(v) THEN {IntToString(RoundInt(v))}
    ELSE {GeneralFormat(v)}

(***************************************************************************)
(* The interpreter state.                                                  *)
(*   script     the lines of the text main() hands to execute              *)
(*   variables  Interpreter::variables, the store                          *)
(*   out        the lines written to std::cout so far                      *)
(*   stack      the activations of execute, outermost first; each holds    *)
(*              its line stream (code, and ln, the number of lines         *)
(*              std::getline has consumed) and, while its for-loop runs    *)
(*              (mode "loop"), the locals var, countExpr, count, i, block  *)
(*   lhsFirst   the operand order this build gives `variables[var] = ...`  *)
(*   exprIn, result   the input and the result of a single evaluation      *)
(*              (used by SpecExpr only)                                    *)
(***************************************************************************)
VARIABLES script, variables, out, stack, lhsFirst, exprIn, result

vars == <<script, variables, out, stack, lhsFirst, exprIn, result>>

EmptyStore == [name \in {} |-> NaN]

\* variables[name] = v (std::map::operator[] followed by an assignment)
Assign(store, name, v) ==
    [n \in DOMAIN store \cup {name} |-> IF n = name THEN v ELSE store[n]]

\* a fresh activation execute(code)
Activation(code) ==
    [code |-> code, ln |-> 0, mode |-> "run",
     var |-> "", countExpr |-> "", count |-> 0, i |-> 0, block |-> <<>>]

Top == stack[Len(stack)]

\* the top activation with some fields changed replaces the top activation
SetTop(f) == [stack EXCEPT ![Len(stack)] = f]

(***************************************************************************)
(* std::istringstream over one line: operator>> and std::getline.          *)
(***************************************************************************)
RECURSIVE TokenEnd(_, _)
\* the position after the run of non-space characters starting at pos
TokenEnd(s, pos) ==
    IF pos < Len(s) /\ ~isspace(CharAt(s, pos)) THEN TokenEnd(s, pos + 1) ELSE pos

\* ss >> token from position pos: [tok, pos]; tok is "" when the line is used
\* up (the stream then fails, and every later read yields "" as well)
ReadToken(s, pos) ==
    LET p0 == SkipSpaces(s, pos)
        e == TokenEnd(s, p0)
    IN  [tok |-> substrN(s, p0, e - p0), pos |-> e]

\* std::getline(ss, rest) from position pos
RestOfLine(s, pos) == substr(s, pos)

RECURSIVE Find(_, _, _)
\* s.find(c) from position pos; -1 is std::string::npos
Find(s, c, pos) ==
    IF pos >= Len(s) THEN -1
    ELSE IF CharAt(s, pos) = c THEN pos
    ELSE Find(s, c, pos + 1)

\* line.rfind("comment", 0) == 0: the line starts with the characters "comment"
IsCommentLine(line) == substrN(line, 0, 7) = "comment"

\* the first token of a trimmed line
Command(line) == ReadToken(line, 0).tok

RECURSIVE readBlockEnd(_, _)
\* the number of lines consumed once readBlock returns, started after ln lines:
\* up to and including the first line that trims to ")", else all of them
readBlockEnd(code, ln) ==
    IF ln >= Len(code) THEN Len(code)
    ELSE IF trim(code[ln + 1]) = ")" THEN ln + 1
    ELSE readBlockEnd(code, ln + 1)

\* readBlock that gives the stream back when it finds no closing marker
readBlockRewinds(code, ln) ==
    LET e == readBlockEnd(code, ln)
        closed == e > ln /\ trim(code[e]) = ")"
    IN  IF closed THEN [block |-> SubSeq(code, ln + 1, e - 1), ln |-> e]
        ELSE [block |-> <<>>, ln |-> ln]

\* readBlock: [block, ln]: the captured lines, and the lines consumed after it
readBlock(code, ln) ==
    LET e == readBlockEnd(code, ln)
        closed == e > ln /\ trim(code[e]) = ")"
    IN  [block |-> SubSeq(code, ln + 1, IF closed THEN e - 1 ELSE e), ln |-> e]

\* splitHeaderAndOpenParen: [ok, beforeParen]
splitHeaderAndOpenParen(line) ==
    LET t == rtrim(line)
    IN  IF t = "" \/ CharAt(t, Len(t) - 1) # "("
        THEN [ok |-> FALSE, beforeParen |-> ""]
        ELSE [ok |-> TRUE, beforeParen |-> rtrim(substrN(t, 0, Len(t) - 1))]

(***************************************************************************)
(* execute: the `while (std::getline(stream, line))` loop of the top       *)
(* activation.                                                             *)
(***************************************************************************)
\* the top activation is about to read a line
HasLine == stack # <<>> /\ Top.mode = "run" /\ Top.ln < Len(Top.code)

\* line = trim(line)
Line == trim(Top.code[Top.ln + 1])

\* `continue` after an empty line or a comment line
Skipped(line) == line = "" \/ IsCommentLine(line)

\* the line goes to one of the statement handlers
HasStatement == HasLine /\ ~Skipped(Line)

\* the statement is done: the activation has consumed ln lines and wrote msgs
Continue(ln, msgs) ==
    /\ stack' = SetTop([Top EXCEPT !.ln = ln])
    /\ out' = out \o msgs

SkipLine ==
    /\ HasLine
    /\ Skipped(Line)
    /\ Continue(Top.ln + 1, <<>>)
    /\ UNCHANGED <<script, variables, lhsFirst, exprIn, result>>

\* the parts of a loop header: [colonPos, var, countExpr, openParen]
LoopParts(line) ==
    LET t1 == ReadToken(line, 0)
        t2 == ReadToken(line, t1.pos)
        varAndCount == t2.tok
        colonPos == Find(varAndCount, ":", 0)
    IN  [colonPos |-> colonPos,
         var |-> IF colonPos = -1 THEN "" ELSE substrN(varAndCount, 0, colonPos),
         countExpr |-> substr(varAndCount, colonPos + 1),
         openParen |-> ReadToken(line, t2.pos).tok]

\* the loop statement for the header parts p, the block rb that readBlock
\* captures and the evaluation c of the count expression
LoopHeader(p, rb, c) ==
    IF p.colonPos = -1
    THEN Continue(Top.ln + 1, <<"Syntax error: loop expects var:count">>)
    ELSE IF p.openParen # "("
    THEN Continue(Top.ln + 1, <<"Syntax error: expected (">>)
    ELSE IF Failed(c)
    THEN Continue(rb.ln, <<c.err>>)
    ELSE \* static_cast<int>(std::floor(c)); c is finite in every script
         \* of this model (the cast of a non-finite double is undefined)
         /\ stack' = SetTop([Top EXCEPT !.ln = rb.ln, !.mode = "loop",
                                        !.var = p.var, !.countExpr = p.countExpr,
                                        !.count = FloorInt(c.v), !.i = 0,
                                        !.block = rb.block])
         /\ out' = out

\* the loop statement up to the start of its for-loop
LoopStmt ==
    /\ HasStatement
    /\ Command(Line) = "loop"
    /\ LoopHeader(LoopParts(Line), readBlock(Top.code, Top.ln + 1),
                  evalExpr(LoopParts(Line).countExpr, variables, "Loop count error: "))
    /\ UNCHANGED <<script, variables, lhsFirst, exprIn, result>>

\* LoopCond with the count expression evaluated again at every test
LoopCondReevaluated(f) ==
    f.i < FloorInt(evalExpr(f.countExpr, variables, "Loop count error: ").v)

\* the test `i < count` of the for-loop
LoopCond(f) == f.i < f.count

\* one iteration of the for-loop: variables[var] = i; execute(block); i++
LoopIter ==
    /\ stack # <<>>
    /\ Top.mode = "loop"
    /\ LoopCond(Top)
    /\ variables' = Assign(variables, Top.var, Num(Top.i))
    /\ stack' = Append(SetTop([Top EXCEPT !.i = @ + 1]), Activation(Top.block))
    /\ UNCHANGED <<script, out, lhsFirst, exprIn, result>>

\* the for-loop ends; the activation goes back to reading lines
LoopExit ==
    /\ stack # <<>>
    /\ Top.mode = "loop"
    /\ ~LoopCond(Top)
    /\ stack' = SetTop([Activation(Top.code) EXCEPT !.ln = Top.ln])
    /\ UNCHANGED <<script, variables, out, lhsFirst, exprIn, result>>

\* the condition of an if header that splitHeaderAndOpenParen accepts:
\* the text after the two characters "if", trimmed
IfCondition(line) == trim(substr(splitHeaderAndOpenParen(line).beforeParen, 2))

\* the if statement for the header h, the block rb that readBlock captures
\* and the evaluation c of the condition
IfHeader(h, rb, c) ==
    IF ~h.ok
    THEN Continue(Top.ln + 1, <<"Syntax error: if expects '(' at end of line">>)
    ELSE IF Failed(c)
    THEN Continue(rb.ln, <<c.err>>)
    ELSE IF ~DEq(c.v, Num(0))
    THEN /\ stack' = Append(SetTop([Top EXCEPT !.ln = rb.ln]), Activation(rb.block))
         /\ out' = out
    ELSE Continue(rb.ln, <<>>)

IfStmt ==
    /\ HasStatement
    /\ Command(Line) = "if"
    /\ IfHeader(splitHeaderAndOpenParen(Line), readBlock(Top.code, Top.ln + 1),
                evalExpr(IfCondition(Line), variables, "If condition error: "))
    /\ UNCHANGED <<script, variables, lhsFirst, exprIn, result>>

\* execute returns: the stream of the top activation is used up
Return ==
    /\ stack # <<>>
    /\ Top.mode = "run"
    /\ Top.ln >= Len(Top.code)
    /\ stack' = SubSeq(stack, 1, Len(stack) - 1)
    /\ UNCHANGED <<script, variables, out, lhsFirst, exprIn, result>>

(***************************************************************************)
(* runLine: the single-line commands.  Its own empty-line and comment      *)
(* tests repeat those of execute and never fire.                           *)
(***************************************************************************)
RunsLine(cmds) == HasStatement /\ Command(Line) \notin {"loop", "if"} /\ cmds

\* rest is a quoted string
IsQuoted(rest) ==
    Len(rest) >= 2 /\ CharAt(rest, 0) = "\"" /\ CharAt(rest, Len(rest) - 1) = "\""

\* PrintEvaluated with the exception text written when the evaluation fails
PrintEvaluatedReportError(rest, store, r) ==
    IF IsQuoted(rest) THEN {substrN(rest, 1, Len(rest) - 2)}
    ELSE IF rest # "" /\ rest \in DOMAIN store THEN printNumberNicely(store[rest])
    ELSE IF Failed(r) THEN {r.err}
    ELSE printNumberNicely(r.v)

\* the texts `print` can write for the remainder rest, r being the evaluation
\* of rest as an expression
PrintEvaluated(rest, store, r) ==
    IF IsQuoted(rest) THEN {substrN(rest, 1, Len(rest) - 2)}
    ELSE IF rest # "" /\ rest \in DOMAIN store THEN printNumberNicely(store[rest])
    ELSE IF Failed(r) THEN {rest}
    ELSE printNumberNicely(r.v)

\* the text `print` writes for the remainder rest: a set (see printNumberNicely)
PrintTexts(rest, store) ==
    PrintEvaluated(rest, store, evalExpr(rest, store, "Print expr error: "))

\* the remainder of a print line: std::getline(ss, rest); rest = trim(rest)
PrintRest(line) == trim(RestOfLine(line, ReadToken(line, 0).pos))

RunPrint ==
    /\ RunsLine(Command(Line) = "print")
    /\ \E text \in PrintTexts(PrintRest(Line), variables) :
           Continue(Top.ln + 1, <<text>>)
    /\ UNCHANGED <<script, variables, lhsFirst, exprIn, result>>

\* the store once std::map::operator[] has run for var, when it runs first
Entered(store, var, leftFirst) ==
    IF leftFirst /\ var \notin DOMAIN store THEN Assign(store, var, Num(0)) ELSE store

\* the assignment of the evaluation r to var in store1, or the report of a throw
SetEvaluated(store1, var, r) ==
    IF Failed(r) THEN [store |-> store1, msgs |-> <<r.err>>]
    ELSE [store |-> Assign(store1, var, r.v), msgs |-> <<>>]

\* `variables[var] = evalExpr(expr, ...)`: [store, msgs].  Before C++17 the
\* order of the two operands is unspecified: when the left one goes first the
\* map entry is created (as 0.0) before the expression is evaluated, so it
\* exists during the evaluation and survives a throw; otherwise the throw
\* leaves the map untouched.
SetVariable(store, var, text, leftFirst) ==
    SetEvaluated(Entered(store, var, leftFirst), var,
                 evalExpr(text, Entered(store, var, leftFirst), "Set expr error: "))

\* the operand orders a build of the assignment can have
OperandOrders == BOOLEAN

\* the parts of a set line: [var, token, text]; text is the expression,
\* which starts with token when token is not "="
SetParts(line) ==
    LET t1 == ReadToken(line, 0)
        t2 == ReadToken(line, t1.pos)
        t3 == ReadToken(line, t2.pos)
        rest == RestOfLine(line, t3.pos)
    IN  [var |-> t2.tok, token |-> t3.tok,
         text |-> IF t3.tok # "=" THEN trim(t3.tok \o rest) ELSE trim(rest)]

\* the end of a set or add statement whose effect is res = [store, msgs]
Finish(res) ==
    /\ Continue(Top.ln + 1, res.msgs)
    /\ variables' = res.store

\* a set statement with the parts p
SetStatement(p) ==
    IF p.var = ""
    THEN /\ Continue(Top.ln + 1, <<"Syntax error: set needs a variable name">>)
         /\ variables' = variables
    ELSE IF p.token = "=" /\ p.text = ""
    THEN /\ Continue(Top.ln + 1, <<"Syntax error: set needs an expression">>)
         /\ variables' = variables
    ELSE Finish(SetVariable(variables, p.var, p.text, lhsFirst))

RunSet ==
    /\ RunsLine(Command(Line) = "set")
    /\ SetStatement(SetParts(Line))
    /\ UNCHANGED <<script, lhsFirst, exprIn, result>>

\* AddEvaluated with `=` in place of `+=`
AddEvaluatedOverwrite(store, var, r) ==
    IF Failed(r) THEN [store |-> store, msgs |-> <<r.err>>]
    ELSE [store |-> Assign(store, var, r.v), msgs |-> <<>>]

\* the addition of the evaluation r to var in store, or the report of a throw
AddEvaluated(store, var, r) ==
    IF Failed(r) THEN [store |-> store, msgs |-> <<r.err>>]
    ELSE [store |-> Assign(store, var, DAdd(store[var], r.v)), msgs |-> <<>>]

\* `variables[var] += evalExpr(expr, ...)` for a var that is in the store
AddVariable(store, var, text) ==
    AddEvaluated(store, var, evalExpr(text, store, "Add expr error: "))

\* the parts of an add line: [var, text]
AddParts(line) ==
    LET t1 == ReadToken(line, 0)
        t2 == ReadToken(line, t1.pos)
    IN  [var |-> t2.tok, text |-> trim(RestOfLine(line, t2.pos))]

\* an add statement with the parts p
AddStatement(p) ==
    IF p.var = ""
    THEN /\ Continue(Top.ln + 1, <<"Syntax error: add needs a variable">>)
         /\ variables' = variables
    ELSE IF p.var \notin DOMAIN variables
    THEN /\ Continue(Top.ln + 1, <<"Error: variable '" \o p.var \o "' not found">>)
         /\ variables' = variables
    ELSE IF p.text = ""
    THEN /\ Continue(Top.ln + 1, <<"Syntax error: add needs a value/expression">>)
         /\ variables' = variables
    ELSE Finish(AddVariable(variables, p.var, p.text))

RunAdd ==
    /\ RunsLine(Command(Line) = "add")
    /\ AddStatement(AddParts(Line))
    /\ UNCHANGED <<script, lhsFirst, exprIn, result>>

RunUnknown ==
    /\ RunsLine(Command(Line) \notin {"print", "set", "add"})
    /\ Continue(Top.ln + 1, <<"Unknown command: " \o Command(Line)>>)
    /\ UNCHANGED <<script, variables, lhsFirst, exprIn, result>>

(***************************************************************************)
(* The scripts the interpreter is run on: every script of at most MaxLines *)
(* lines over a small vocabulary, and a catalogue of longer scripts.       *)
(***************************************************************************)
Vocabulary ==
    {"set x = 2", "set y = x", "add x 1", "print x + 1",
     "loop i:x (", "if x > 2 (", ")", "commentary x"}

GeneratedScripts == UNION {[1..n -> Vocabulary] : n \in 1..MaxLines}

NestedScript == <<"loop i:2 (", "if i == 1 (", "print i", ")", ")">>

SumScript == <<"set total = 0", "loop i:3 (", "add total i", ")">>

SetAddScript == <<"set x = 10", "print x", "add x 5", "print x">>

UnknownVarScript == <<"set v = u", "set w u", "add z 1", "print \"next\"", "set v = 1">>

CountFixedScript ==
    <<"set n = 2", "set t = 0", "loop i:n (", "  set n = 5", "  add i 10",
      "  add t 1", ")", "print t", "print i">>

PrintScript ==
    <<"print 1 +", "print hello world", "print 7/2", "print 1/3", "print (2 + 3) * 4",
      "print \"a b\"", "print \"", "print u">>

UnclosedLoopScript == <<"set n = 0", "loop i:2 (", "add n 1", "print n">>

UnclosedIfScript == <<"if 1 (", "print 1", "print 2">>

Catalogue ==
    {NestedScript, SumScript, SetAddScript, UnknownVarScript, CountFixedScript,
     <<"if 1 > 0 (", "print \"yes\"", ")">>,
     <<"if 1 < 0 (", "print \"no\"", ")", "print \"after\"">>,
     <<"if u (", "print \"no\"", ")", "print \"after\"">>,
     <<"if 0 (", "if 1 (", "print 1", ")", "print 2", ")">>,
     <<"if 1 (", "if 0 (", "print 1", ")", "print 2", ")", "print 3">>,
     <<"if u (", "loop i:2 (", "print i", ")", "print 9", ")">>,
     <<"loop i:0 (", "if 1 (", "set x = 1", ")", "set y = 2", ")">>,
     <<"loop i:2 (", "loop j:2 (", "print i + j", ")", "print 7", ")">>,
     <<"set s = 0", "loop i:5/2 (", "add s 1", ")", "loop j:0-1 (", "add s 10", ")",
       "print s">>,
     <<"loop k:u (", "print 1", ")", "print 2">>,
     <<"loop i 3 (", "print 1", ")", "print 2">>,
     <<"loop i:3", "print 1", ")", "print 2">>,
     <<"loop i:2(", "print 1", ")">>,
     <<"loop", "if 1 > 0", "print 1", ")">>,
     <<"if 1 > 0 ( print 1 )", "print 2">>,
     <<"comment hello", "comments are ignored", "  commentary x", "frobnicate 1",
       "", "   ", "print 1">>,
     <<"Print 1", "set", "set x", "set x =", "add", "add x", "set x =1", "print">>,
     <<"set x = 1", "add x", "add x u", "add x x + 1", "print x", "set x x * 2",
       "print x">>,
     PrintScript,
     <<"set u = 0 - 7", "print u % 3", "print abs(u)", "print min(u, 2)", "print max(u)",
       "print nosuch(1)", "print floor(u / 2)", "print ceil(u / 2)">>,
     <<"set x = x + 1", "print x", "set y y", "print y">>,
     <<"set a = 0/0", "print a", "print 1/0", "print !a">>,
     UnclosedLoopScript, UnclosedIfScript,
     <<"set n = 0", "loop i:2 (", "add n 1">>,
     <<"if 0 (", "print 1", "print 2">>,
     <<"set x = 3", "if x > 2 (", "loop i:x (", "add x 1">>}

Scripts == GeneratedScripts \cup Catalogue

Init ==
    /\ script \in Scripts
    /\ variables = EmptyStore
    /\ out = <<>>
    /\ stack = <<Activation(script)>>
    /\ lhsFirst \in OperandOrders
    /\ exprIn = <<>>
    /\ result = <<>>

Next ==
    \/ SkipLine
    \/ LoopStmt
    \/ LoopIter
    \/ LoopExit
    \/ IfStmt
    \/ Return
    \/ RunPrint
    \/ RunSet
    \/ RunAdd
    \/ RunUnknown

Spec == Init /\ [][Next]_vars

\* main() has returned from execute
Done == stack = <<>>

(***************************************************************************)
(* A single evaluation of a variable-free expression.  An expression input *)
(* is a chain  operands[1] ops[1] operands[2] ops[2] ...  where an operand *)
(* is a sequence literal, operator, literal, ...: a bare integer literal   *)
(* when it has one element, a parenthesised group otherwise.               *)
(***************************************************************************)
Literals == {NatToString(n) : n \in 0..MaxLit}

BinaryOps == {"*", "/", "%", "+", "-", ">", "<", ">=", "<=", "==", "!=", "&&", "||"}

\* one operator of every tier, for the longer chains
TierOps == {"*", "-", "<", "==", "&&", "||"}

Chain(operands, ops) == [operands |-> operands, ops |-> ops]

SpecExamples ==
    {Chain(<< <<"2">>, <<"3">>, <<"4">> >>, <<"+", "*">>),
     Chain(<< <<"2", "+", "3">>, <<"4">> >>, <<"*">>),
     Chain(<< <<"10">>, <<"4">>, <<"3">> >>, <<"-", "-">>),
     Chain(<< <<"5">>, <<"3">>, <<"2">>, <<"1">> >>, <<">", "&&", "<">>),
     Chain(<< <<"5">>, <<"3">>, <<"2">>, <<"1">> >>, <<">", "||", "<">>),
     Chain(<< <<"7">>, <<"2">>, <<"2">> >>, <<"/", "*">>),
     Chain(<< <<"7">>, <<"4">>, <<"2">> >>, <<"%", "%">>)}

ExprInputs ==
    { Chain(<< <<a>> >>, <<>>) : a \in Literals }
    \cup { Chain(<< <<a>>, <<b>> >>, <<o>>) :
             a \in Literals, o \in BinaryOps, b \in Literals }
    \cup { Chain(<< <<a>>, <<b>>, <<c>> >>, <<o1, o2>>) :
             a \in Literals, o1 \in BinaryOps, b \in Literals, o2 \in BinaryOps,
             c \in Literals }
    \cup { Chain(<< <<a, o1, b>>, <<c>> >>, <<o2>>) :
             a \in Literals, o1 \in BinaryOps, b \in Literals, o2 \in BinaryOps,
             c \in Literals }
    \cup { Chain(<< <<a>>, <<b, o2, c>> >>, <<o1>>) :
             a \in Literals, o1 \in BinaryOps, b \in Literals, o2 \in BinaryOps,
             c \in Literals }
    \cup { Chain(<< <<a>>, <<b>>, <<c>>, <<d>> >>, <<o1, o2, o3>>) :
             a \in Literals, o1 \in TierOps, b \in Literals, o2 \in TierOps,
             c \in Literals, o3 \in TierOps, d \in Literals }
    \cup SpecExamples

RECURSIVE Join(_)
\* the tokens of a sequence, separated by one space
Join(toks) ==
    IF Len(toks) = 1 THEN toks[1] ELSE toks[1] \o " " \o Join(Tail(toks))

RECURSIVE RenderFrom(_, _)
RenderFrom(e, k) ==
    LET x == e.operands[k]
        text == IF Len(x) = 1 THEN x[1] ELSE "(" \o Join(x) \o ")"
    IN  IF k = Len(e.operands) THEN text
        ELSE text \o " " \o e.ops[k] \o " " \o RenderFrom(e, k + 1)

\* the expression text of an input
Render(e) == RenderFrom(e, 1)

InitExpr ==
    /\ exprIn \in ExprInputs
    /\ result = <<>>
    /\ script = <<>>
    /\ variables = EmptyStore
    /\ out = <<>>
    /\ stack = <<>>
    /\ lhsFirst = FALSE

\* evaluate(text, variables) on the rendered input, with an empty store
Evaluate ==
    /\ result = <<>>
    /\ result' = evalExpr(Render(exprIn), variables, "Expr error: ")
    /\ UNCHANGED <<script, variables, out, stack, lhsFirst, exprIn>>

NextExpr == Evaluate

SpecExpr == InitExpr /\ [][NextExpr]_vars

(***************************************************************************)
(* Blocks as the language description defines them: the lines strictly     *)
(* between a block-opening header and its own matching closing marker,     *)
(* inner blocks counted.                                                   *)
(***************************************************************************)
\* the line is a loop or if header that opens a block
Opens(line) ==
    LET t == trim(line)
    IN  Command(t) \in {"loop", "if"} /\ CharAt(t, Len(t) - 1) = "("

\* the line is a closing marker
Closes(line) == trim(line) = ")"

RECURSIVE MatchingClose(_, _, _)
\* the index of the marker that closes the block whose body starts at line j,
\* with depth inner blocks open; 0 when there is none
MatchingClose(code, j, depth) ==
    IF j > Len(code) THEN 0
    ELSE IF Closes(code[j])
    THEN (IF depth = 0 THEN j ELSE MatchingClose(code, j + 1, depth - 1))
    ELSE IF Opens(code[j]) THEN MatchingClose(code, j + 1, depth + 1)
    ELSE MatchingClose(code, j + 1, depth)

\* for the header the top activation is about to read: the index of its
\* closing marker (0 when none) and its body
BlockClose == MatchingClose(Top.code, Top.ln + 2, 0)

BlockBody == SubSeq(Top.code, Top.ln + 2, BlockClose - 1)

\* the top activation after a step that neither calls nor returns
TopAfter == stack'[Len(stack)]

\* the step leaves the call depth alone and moves the top activation to
\* having consumed ln lines, reading lines
ResumesAt(ln) ==
    /\ Len(stack') = Len(stack)
    /\ stack' = SetTop([Top EXCEPT !.ln = ln])

\* the step calls execute(body) once and will resume after ln lines
CallsBody(body, ln) ==
    stack' = Append(SetTop([Top EXCEPT !.ln = ln]), Activation(body))

(***************************************************************************)
(* C1.  Nested blocks: for the script  loop i:2 ( / if i == 1 ( / print i  *)
(* / ) / )  execute emits exactly one output line, "1", and no error line. *)
(***************************************************************************)
C1_NestedBlocksPrintOne == (script = NestedScript /\ Done) => out = <<"1">>

(***************************************************************************)
(* C2.  A set statement whose expression fails to evaluate emits one       *)
(* failure message, leaves the variable store exactly as it was (no key    *)
(* added, no value changed), and the next statement of the same nesting    *)
(* level is executed next.                                                 *)
(***************************************************************************)
SetFails ==
    /\ HasStatement
    /\ Command(Line) = "set"
    /\ SetParts(Line).var # ""
    /\ Failed(evalExpr(SetParts(Line).text, variables, "Set expr error: "))

C2_FailedSetKeepsStore ==
    [][SetFails => /\ variables' = variables
                   /\ Len(out') = Len(out) + 1
                   /\ ResumesAt(Top.ln + 1)]_vars

(***************************************************************************)
(* C3.  A well-formed loop whose count evaluates to c, N = floor(c): the   *)
(* header emits nothing and changes no variable; the body (the lines up to *)
(* the matching closing marker) is executed N times when N > 0, in order,  *)
(* with the loop variable set to i before the i-th execution, and zero     *)
(* times when N <= 0; execution resumes after the closing marker.  After   *)
(* set total = 0 and loop i:3 ( add total i ), total is 3.                 *)
(***************************************************************************)
WellFormedLoop ==
    /\ HasStatement
    /\ Command(Line) = "loop"
    /\ LoopParts(Line).colonPos # -1
    /\ LoopParts(Line).openParen = "("
    /\ BlockClose # 0

LoopCount == evalExpr(LoopParts(Line).countExpr, variables, "Loop count error: ")

C3_LoopRunsBodyNTimes ==
    [][/\ (WellFormedLoop /\ ~Failed(LoopCount)) =>
            /\ out' = out
            /\ variables' = variables
            /\ Len(stack') = Len(stack)
            /\ TopAfter.mode = "loop"
            /\ TopAfter.count = FloorInt(LoopCount.v)
            /\ TopAfter.i = 0
            /\ TopAfter.var = LoopParts(Line).var
            /\ TopAfter.block = BlockBody
            /\ TopAfter.ln = BlockClose
       /\ (stack # <<>> /\ Top.mode = "loop" /\ Top.i < Top.count) =>
            /\ variables' = Assign(variables, Top.var, Num(Top.i))
            /\ stack' = Append(SetTop([Top EXCEPT !.i = @ + 1]), Activation(Top.block))
            /\ out' = out
       /\ (stack # <<>> /\ Top.mode = "loop" /\ Top.i >= Top.count) =>
            /\ variables' = variables
            /\ out' = out
            /\ Len(stack') = Len(stack)
            /\ TopAfter.mode = "run"
            /\ TopAfter.ln = Top.ln
       /\ (script' = SumScript /\ Done') =>
            /\ "total" \in DOMAIN variables'
            /\ variables'["total"] = Num(3)]_vars

(***************************************************************************)
(* C4.  A well-formed if: a non-zero condition executes the body (the      *)
(* lines up to the matching closing marker) exactly once; a zero condition *)
(* executes no line of it and emits nothing; a failing condition emits     *)
(* exactly the failure message and executes no line of it.  In all three   *)
(* cases execution resumes with the line after the closing marker.         *)
(***************************************************************************)
WellFormedIf ==
    /\ HasStatement
    /\ Command(Line) = "if"
    /\ splitHeaderAndOpenParen(Line).ok
    /\ BlockClose # 0

IfValue == evalExpr(IfCondition(Line), variables, "If condition error: ")

C4_IfRunsBodyOnceOrNever ==
    [][WellFormedIf =>
         /\ variables' = variables
         /\ IF Failed(IfValue) THEN out' = Append(out, IfValue.err) /\ ResumesAt(BlockClose)
            ELSE IF DEq(IfValue.v, Num(0)) THEN out' = out /\ ResumesAt(BlockClose)
            ELSE out' = out /\ CallsBody(BlockBody, BlockClose)]_vars

(***************************************************************************)
(* C5.  Every recoverable failure is one line of output and execution      *)
(* continues with the next statement of the same nesting level; a loop or  *)
(* if statement with a malformed header is skipped as a whole (its block   *)
(* included) with one error line.                                          *)
(***************************************************************************)
MalformedHeader ==
    /\ HasStatement
    /\ \/ /\ Command(Line) = "loop"
          /\ LoopParts(Line).colonPos = -1 \/ LoopParts(Line).openParen # "("
       \/ /\ Command(Line) = "if"
          /\ ~splitHeaderAndOpenParen(Line).ok

\* the lines consumed once the statement the top activation is about to read
\* is over: past the closing marker of its block when it opens one
StatementEnd ==
    IF Opens(Line) /\ BlockClose # 0 THEN BlockClose ELSE Top.ln + 1

C5_FailureIsOneLineAndSkips ==
    [][/\ MalformedHeader =>
            /\ Len(out') = Len(out) + 1
            /\ variables' = variables
            /\ ResumesAt(StatementEnd)
       /\ (HasStatement /\ Command(Line) \notin {"loop", "if"}) =>
            /\ Len(out') <= Len(out) + 1
            /\ ResumesAt(Top.ln + 1)]_vars

(***************************************************************************)
(* C6.  add never creates a variable: on a variable that is not in the     *)
(* store it emits an error line and leaves the store unchanged; on one     *)
(* that is, with an expression of value r, it adds r to that variable and  *)
(* changes no other.  A successful set makes the variable equal to the     *)
(* value of the expression, creating it if absent, and changes no other.   *)
(* So set x = 10 then add x 5 leaves x = 15.                               *)
(***************************************************************************)
AddValue == evalExpr(AddParts(Line).text, variables, "Add expr error: ")

SetValue == evalExpr(SetParts(Line).text, variables, "Set expr error: ")

C6_AddAndSetFrame ==
    [][/\ (HasStatement /\ Command(Line) = "add") =>
            /\ DOMAIN variables' = DOMAIN variables
            /\ AddParts(Line).var \notin DOMAIN variables =>
                  variables' = variables /\ Len(out') = Len(out) + 1
            /\ (AddParts(Line).var \in DOMAIN variables /\ ~Failed(AddValue)) =>
                  /\ variables' = [variables EXCEPT ![AddParts(Line).var] =
                                                       DAdd(@, AddValue.v)]
                  /\ out' = out
       /\ (HasStatement /\ Command(Line) = "set" /\ SetParts(Line).var # ""
                        /\ ~Failed(SetValue)) =>
            /\ variables' = Assign(variables, SetParts(Line).var, SetValue.v)
            /\ out' = out
       /\ (script' = SetAddScript /\ Done') =>
            /\ "x" \in DOMAIN variables'
            /\ variables'["x"] = Num(15)
            /\ out' = <<"10", "15">>]_vars

\* add has acted on a variable set before
C6_Witness ==
    /\ script = SetAddScript
    /\ stack # <<>>
    /\ Top.ln = 3
    /\ "x" \in DOMAIN variables
    /\ variables["x"] = Num(15)

(***************************************************************************)
(* C7.  A line is ignored as a comment when its first token is `comment`,  *)
(* and every non-blank line whose first token is none of print, set, add,  *)
(* loop, if, comment emits "Unknown command: " and that token, after which *)
(* execution continues with the next line.                                 *)
(***************************************************************************)
KnownCommands == {"print", "set", "add", "loop", "if", "comment"}

C7_FirstTokenDecides ==
    [][(HasLine /\ Line # "") =>
         /\ Command(Line) = "comment" =>
               out' = out /\ variables' = variables /\ ResumesAt(Top.ln + 1)
         /\ Command(Line) \notin KnownCommands =>
               /\ out' = Append(out, "Unknown command: " \o Command(Line))
               /\ variables' = variables
               /\ ResumesAt(Top.ln + 1)]_vars

(***************************************************************************)
(* C8.  print never emits an evaluation error message and never changes    *)
(* the store; it writes exactly one line.  For a remainder that is neither *)
(* a double-quoted literal nor the name of a variable in the store, the    *)
(* line is the formatted value when the remainder evaluates, and the raw   *)
(* remainder otherwise.                                                    *)
(***************************************************************************)
PrintValue == evalExpr(PrintRest(Line), variables, "Print expr error: ")

C8_PrintFallsBackToRawText ==
    [][(HasStatement /\ Command(Line) = "print") =>
         /\ variables' = variables
         /\ Len(out') = Len(out) + 1
         /\ SubSeq(out', 1, Len(out)) = out
         /\ ResumesAt(Top.ln + 1)
         /\ (~IsQuoted(PrintRest(Line)) /\ PrintRest(Line) \notin DOMAIN variables) =>
               IF Failed(PrintValue)
               THEN out'[Len(out')] = PrintRest(Line) /\ out'[Len(out')] # PrintValue.err
               ELSE out'[Len(out')] \in printNumberNicely(PrintValue.v)]_vars

\* print has fallen back to the raw text twice and has formatted two values
C8_Witness ==
    /\ script = PrintScript
    /\ out = <<"1 +", "hello world", "3.5", "0.333333333333">>

(***************************************************************************)
(* C9.  A valid variable-free expression of integer literals, parentheses  *)
(* and binary operators evaluates to the value of the reference            *)
(* evaluation: parenthesised groups first, then the operators tier by tier *)
(* from the tightest ( * / % ) through + -, the comparisons, == and !=,    *)
(* && to the loosest ( || ), each tier from left to right; when the last   *)
(* operator applied is a comparison, an equality or a logical operator the *)
(* value is exactly 0 or 1.                                                *)
(***************************************************************************)
Tiers ==
    <<{"*", "/", "%"}, {"+", "-"}, {">", "<", ">=", "<="}, {"==", "!="}, {"&&"}, {"||"}>>

\* the integer an integer literal denotes
LiteralValue(tok) == CHOOSE n \in 0..99 : NatToString(n) = tok

IsTrue(v) == ~DEq(v, Num(0))

\* the value of  a op b
Apply(op, a, b) ==
    CASE op = "*" -> DMul(a, b)
      [] op = "/" -> DDiv(a, b)
      [] op = "%" -> DFmod(a, b)
      [] op = "+" -> DAdd(a, b)
      [] op = "-" -> DSub(a, b)
      [] op = ">" -> Bool(DLess(b, a))
      [] op = "<" -> Bool(DLess(a, b))
      [] op = ">=" -> Bool(DLess(b, a) \/ DEq(a, b))
      [] op = "<=" -> Bool(DLess(a, b) \/ DEq(a, b))
      [] op = "==" -> Bool(DEq(a, b))
      [] op = "!=" -> Bool(~DEq(a, b))
      [] op = "&&" -> Bool(IsTrue(a) /\ IsTrue(b))
      [] op = "||" -> Bool(IsTrue(a) \/ IsTrue(b))

RECURSIVE ReduceTier(_, _, _)
\* apply the operators of one tier, from left to right: [vals, ops]
ReduceTier(vals, ops, tier) ==
    IF ops = <<>> THEN [vals |-> vals, ops |-> ops]
    ELSE IF ops[1] \in tier
    THEN ReduceTier(<<Apply(ops[1], vals[1], vals[2])>> \o SubSeq(vals, 3, Len(vals)),
                    Tail(ops), tier)
    ELSE LET r == ReduceTier(Tail(vals), Tail(ops), tier)
         IN  [vals |-> <<vals[1]>> \o r.vals, ops |-> <<ops[1]>> \o r.ops]

RECURSIVE ReduceFrom(_, _, _)
\* reduce the tiers k, k + 1, ... in turn
ReduceFrom(vals, ops, k) ==
    IF k > Len(Tiers) THEN vals[1]
    ELSE LET r == ReduceTier(vals, ops, Tiers[k])
         IN  ReduceFrom(r.vals, r.ops, k + 1)

\* the value of a sequence literal, operator, literal, ...
OperandValue(x) ==
    ReduceFrom([k \in 1..((Len(x) + 1) \div 2) |-> Num(LiteralValue(x[2 * k - 1]))],
               [k \in 1..(Len(x) \div 2) |-> x[2 * k]], 1)

\* the reference value of an expression input
Reference(e) ==
    ReduceFrom([k \in 1..Len(e.operands) |-> OperandValue(e.operands[k])], e.ops, 1)

\* the operators among which the last one applied is found
OuterOps(e) ==
    IF e.ops # <<>> THEN {e.ops[k] : k \in 1..Len(e.ops)}
    ELSE {e.operands[1][2 * k] : k \in 1..(Len(e.operands[1]) \div 2)}

\* the last operator applied belongs to a tier of comparisons or logic
EndsInTruthValue(e) == \E k \in 3..Len(Tiers) : OuterOps(e) \cap Tiers[k] # {}

C9_EvaluationFollowsPrecedence ==
    result # <<>> =>
        /\ ~Failed(result)
        /\ result.v = Reference(exprIn)
        /\ EndsInTruthValue(exprIn) => result.v \in {Num(0), Num(1)}

\* 2 + 3 * 4 has been evaluated, to 14
C9_Witness ==
    /\ exprIn = Chain(<< <<"2">>, <<"3">>, <<"4">> >>, <<"+", "*">>)
    /\ result # <<>>
    /\ result.v = Num(14)

(***************************************************************************)
(* C10.  The iteration count of a loop is fixed before its first           *)
(* iteration: while an activation runs its for-loop its count never        *)
(* changes, whatever the body assigns, the for-loop is left only once i    *)
(* has reached the count, and every iteration starts by overwriting the    *)
(* loop variable with i.  In CountFixedScript the body changes both the    *)
(* variable the count was read from and the loop variable, and still runs  *)
(* exactly twice.                                                          *)
(***************************************************************************)
C10_LoopCountIsFixed ==
    [][/\ \A k \in 1..Len(stack) :
            (stack[k].mode = "loop" /\ k <= Len(stack')) =>
                \/ /\ stack'[k].mode = "loop"
                   /\ stack'[k].count = stack[k].count
                   /\ stack'[k].i \in {stack[k].i, stack[k].i + 1}
                   /\ stack'[k].i <= stack[k].count
                \/ /\ stack'[k].mode = "run"
                   /\ stack[k].i >= stack[k].count
       /\ (stack # <<>> /\ Top.mode = "loop" /\ Len(stack') > Len(stack)) =>
            /\ Top.var \in DOMAIN variables'
            /\ variables'[Top.var] = Num(Top.i)
            /\ TopAfter.i = Top.i + 1
       /\ (script' = CountFixedScript /\ Done') => out' = <<"2", "11">>]_vars

\* the loop of CountFixedScript is over: two iterations, n is 5, i is 1 + 10
C10_Witness ==
    /\ script = CountFixedScript
    /\ Done
    /\ out = <<"2", "11">>
    /\ variables["n"] = Num(5)

(***************************************************************************)
(* C11.  A block with no closing marker: when a well-formed loop or if     *)
(* header is followed by no line that trims to ")", readBlock consumes     *)
(* every remaining line of the enclosing script as the body and nothing is *)
(* emitted for the missing marker (the only line the header can emit is    *)
(* the failure of its own expression); the body runs N times for a loop,   *)
(* once or not at all for an if; and an activation that has consumed all   *)
(* of its lines executes none: it only runs its for-loop, each iteration   *)
(* calling execute on the captured block while i < count, and returns.     *)
(***************************************************************************)
\* no line after the header the top activation is about to read closes a block
NoClosingMarker ==
    \A j \in (Top.ln + 2)..Len(Top.code) : ~Closes(Top.code[j])

\* every line after that header
RemainingLines == SubSeq(Top.code, Top.ln + 2, Len(Top.code))

UnclosedLoop ==
    /\ HasStatement
    /\ Command(Line) = "loop"
    /\ LoopParts(Line).colonPos # -1
    /\ LoopParts(Line).openParen = "("
    /\ NoClosingMarker

UnclosedIf ==
    /\ HasStatement
    /\ Command(Line) = "if"
    /\ splitHeaderAndOpenParen(Line).ok
    /\ NoClosingMarker

\* the top activation has consumed all the lines of its script
Exhausted == stack # <<>> /\ Top.ln >= Len(Top.code)

C11_UnclosedBlockTakesTheRest ==
    [][/\ UnclosedLoop =>
            /\ variables' = variables
            /\ IF Failed(LoopCount)
               THEN ResumesAt(Len(Top.code)) /\ out' = out \o <<LoopCount.err>>
               ELSE /\ out' = out
                    /\ Len(stack') = Len(stack)
                    /\ TopAfter.ln = Len(Top.code)
                    /\ TopAfter.mode = "loop"
                    /\ TopAfter.block = RemainingLines
                    /\ TopAfter.count = FloorInt(LoopCount.v)
                    /\ TopAfter.i = 0
       /\ UnclosedIf =>
            /\ variables' = variables
            /\ IF Failed(IfValue)
               THEN ResumesAt(Len(Top.code)) /\ out' = out \o <<IfValue.err>>
               ELSE IF ~DEq(IfValue.v, Num(0))
               THEN CallsBody(RemainingLines, Len(Top.code)) /\ out' = out
               ELSE ResumesAt(Len(Top.code)) /\ out' = out
       /\ Exhausted =>
            /\ out' = out
            /\ IF Top.mode = "loop"
               THEN IF Top.i < Top.count
                    THEN stack' = Append(SetTop([Top EXCEPT !.i = @ + 1]),
                                         Activation(Top.block))
                    ELSE /\ Len(stack') = Len(stack)
                         /\ TopAfter.ln = Top.ln
                         /\ TopAfter.mode = "run"
                         /\ variables' = variables
               ELSE /\ stack' = SubSeq(stack, 1, Len(stack) - 1)
                    /\ variables' = variables]_vars

\* the unclosed loop has run `add n 1` and `print n` twice as its body and the
\* script has ended without an error line
C11_Witness ==
    /\ script = UnclosedLoopScript
    /\ Done
    /\ out = <<"1", "2">>
    /\ variables["n"] = Num(2)

====
